---- MODULE Spec2Model ----
(***************************************************************************)
(* A model of youtube_save_frame_tampermonkey.js: the hotkey listener, the *)
(* capture pipeline captureAndSave with its suspension points (frame wait, *)
(* encoder promises, GM_download callbacks, revoke timer), and the pure    *)
(* helpers getBestVideo, sanitizeFilename and tsp.                         *)
(*                                                                         *)
(* Strings are sequences of one-character strings.  A playback position is *)
(* an integer count of 1/10000 s units.                                    *)
(***************************************************************************)
EXTENDS Integers, Sequences, FiniteSets, TLC

\* ------------------------------------------------------------------ bounds
\* Number of captures a behaviour of Spec starts, and of ReSpec, where a
\* second hotkey press may arrive while the first capture is in flight.
MaxInv == 1
MaxPresses == 2
\* Number of video elements in a document handed to getBestVideo.
MaxVideos == 2
\* Largest rendered width / height of a video element.
MaxDim == 2
\* Length of the strings sanitizeFilename is given, and of the tails of the
\* strings near its 180-character limit.
MaxLen == 3
\* Largest number of whole hours in a playback position given to tsp.
MaxHours == 2
\* Number of frames a playing video advances during one capture.
MaxFrames == 2

\* ------------------------------------------------------------------ CFG
CFG ==
  [ format     |-> "jpeg",
    quality    |-> 98,
    scale      |-> 1,
    hotkey     |-> "s",
    hotkeyCtrl |-> TRUE,
    hotkeyShift|-> TRUE,
    hotkeyAlt  |-> FALSE,
    autoPause  |-> FALSE,
    showToast  |-> TRUE ]

\* sanitizeFilename keeps at most this many characters.
MaxTitleLen == 180

SELECTORS ==
  [ videos |-> << "video.html5-main-video", "ytd-player video",
                  "ytd-reel-video-renderer video", "#shorts-container video", "video" >>,
    titles |-> << "h1.ytd-watch-metadata yt-formatted-string", "h1.title",
                  "h1.ytd-reel-player-overlay-renderer", "meta[itemprop=\"name\"]",
                  "title" >> ]

\* ------------------------------------------------------------------ strings
Chr(s) == << s >>
UnitsPerSec == 10 * 1000

RECURSIVE Concat(_)
Concat(ss) == IF ss = << >> THEN << >> ELSE Head(ss) \o Concat(Tail(ss))

Take(s, n) == IF Len(s) <= n THEN s ELSE SubSeq(s, 1, n)

\* The characters of /[\\/:*?"<>|\u0000-\u001F]/ and of /\s/ that the model uses.
IllegalChars == { "\\", "/", ":", "*", "?", "\"", "<", ">", "|", "\t", "\n" }
SpaceChars == { " ", "\t", "\n", "NBSP" }

\* s without its leading characters of cls
DropWhile(s, cls) ==
  LET keep == { j \in 1..Len(s) : s[j] \notin cls }
  IN  IF keep = {} THEN << >>
      ELSE SubSeq(s, CHOOSE j \in keep : \A m \in keep : j <= m, Len(s))

\* s.replace(/[cls]+/g, ' '): the first character of each run of cls
\* characters becomes a space, the others of the run go.
ReplaceRuns(s, cls) ==
  LET marked == [ j \in 1..Len(s) |->
                    IF s[j] \notin cls THEN s[j]
                    ELSE IF j = 1 \/ s[j - 1] \notin cls THEN " "
                    ELSE "" ]
  IN  SelectSeq(marked, LAMBDA ch : ch # "")

\* s without its trailing characters of cls
DropTrailing(s, cls) ==
  LET keep == { j \in 1..Len(s) : s[j] \notin cls }
  IN  IF keep = {} THEN << >>
      ELSE SubSeq(s, 1, CHOOSE j \in keep : \A m \in keep : j >= m)

\* String.prototype.trim
Trim(s) == DropTrailing(DropWhile(s, SpaceChars), SpaceChars)

YouTubeStr == << "Y", "o", "u", "T", "u", "b", "e" >>

\* Each stage works on the value of the stage before it.
sanitizeFilename(s) ==
  CHOOSE r \in
    { Take(s3, MaxTitleLen) :
        s3 \in { Trim(s2) :
          s2 \in { ReplaceRuns(s1, SpaceChars) :
            s1 \in { ReplaceRuns(s0, IllegalChars) :
              s0 \in { IF s = << >> THEN YouTubeStr ELSE s } } } } } : TRUE

\* String(n) of a natural number
Digit(d) == CASE d = 0 -> "0" [] d = 1 -> "1" [] d = 2 -> "2" [] d = 3 -> "3"
              [] d = 4 -> "4" [] d = 5 -> "5" [] d = 6 -> "6" [] d = 7 -> "7"
              [] d = 8 -> "8" [] d = 9 -> "9"

RECURSIVE NumStr(_)
NumStr(n) == IF n < 10 THEN << Digit(n) >> ELSE NumStr(n \div 10) \o << Digit(n % 10) >>

\* padStart left out: the digits as String(n) gives them.
Unpadded(s, n) == s

RECURSIVE padStart(_, _)
padStart(s, n) == IF Len(s) >= n THEN s ELSE padStart(<< "0" >> \o s, n)

\* tsp(t), t in 1/UnitsPerSec seconds; Math.round rounds a half up.
tsp(t) ==
  LET hh == t \div (3600 * UnitsPerSec)
      mm == (t % (3600 * UnitsPerSec)) \div (60 * UnitsPerSec)
      ss == (t % (60 * UnitsPerSec)) \div UnitsPerSec
      ms == ((t % UnitsPerSec) * 1000 + UnitsPerSec \div 2) \div UnitsPerSec
  IN  [ hh |-> padStart(NumStr(hh), 2),
        mm |-> padStart(NumStr(mm), 2),
        ss |-> padStart(NumStr(ss), 2),
        ms |-> padStart(NumStr(ms), 3) ]

SuffixYouTube == << " ", "-", " ", "Y", "o", "u", "T", "u", "b", "e" >>

\* s.replace(/ - YouTube$/, '')
StripSuffix(s) ==
  LET n == Len(SuffixYouTube)
  IN  IF Len(s) >= n /\ SubSeq(s, Len(s) - n + 1, Len(s)) = SuffixYouTube
      THEN SubSeq(s, 1, Len(s) - n)
      ELSE s

\* A page: els[k] is what document.querySelector(SELECTORS.titles[k]) finds
\* (present, its textContent, its 'content' attribute), docTitle is
\* document.title, currentTime the video's playback position and playing
\* whether the video is not paused.
RECURSIVE titleLoop(_, _)
titleLoop(els, k) ==
  IF k > Len(SELECTORS.titles) THEN << >>
  ELSE IF els[k].present /\ els[k].text # << >> THEN Trim(els[k].text)
  ELSE IF els[k].present /\ els[k].content # << >> THEN els[k].content
  ELSE titleLoop(els, k + 1)

titleText(page) ==
  CHOOSE r \in { IF t = << >> THEN StripSuffix(page.docTitle) ELSE t :
                  t \in { titleLoop(page.els, 1) } } : TRUE

filenameOf(pg) ==
  CHOOSE name \in
    { Concat(<< title, << " ", "-", " " >>, ts.hh, Chr("-"), ts.mm, Chr("-"), ts.ss,
                Chr("."), ts.ms, << ".", "j", "p", "g" >> >>) :
        title \in { sanitizeFilename(raw) : raw \in { titleText(pg) } },
        ts \in { tsp(pg.currentTime) } } : TRUE

\* ------------------------------------------------------------------ getBestVideo
\* A document is the sequence of its video elements in document order; an
\* element is named by its position.  sels: the entries of SELECTORS.videos,
\* besides 'video', that match it; w, h: its bounding rectangle; vis:
\* offsetParent !== null.
\* document.querySelectorAll(sel)
SelectAll(doc, sel) ==
  LET F[j \in 0..Len(doc)] ==
        IF j = 0 THEN << >>
        ELSE IF sel = "video" \/ sel \in doc[j].sels THEN Append(F[j - 1], j)
        ELSE F[j - 1]
  IN  F[Len(doc)]

\* SELECTORS.videos.flatMap(...), from the k-th selector on
RECURSIVE flatMapVideos(_, _)
flatMapVideos(doc, k) ==
  IF k > Len(SELECTORS.videos) THEN << >>
  ELSE SelectAll(doc, SELECTORS.videos[k]) \o flatMapVideos(doc, k + 1)

Qualifies(v) == v.w > 0 /\ v.h > 0 /\ v.vis

\* The comparison with >= in place of >: a later candidate of equal area
\* replaces the earlier one.
ScoreTies(sc, score) == sc >= score

\* if (sc > score)
ScoreBeats(sc, score) == sc > score

\* The for loop: st = [best, score]; best = 0 is null.
RECURSIVE bestLoop(_, _, _)
bestLoop(doc, list, st) ==
  IF list = << >> THEN st
  ELSE LET v  == doc[Head(list)]
           sc == v.w * v.h
       IN  IF Qualifies(v) /\ ScoreBeats(sc, st.score)
           THEN bestLoop(doc, Tail(list), [best |-> Head(list), score |-> sc])
           ELSE bestLoop(doc, Tail(list), st)

\* getBestVideo with "return best" as its last line.
getBestVideoNoFallback(doc) ==
  bestLoop(doc, flatMapVideos(doc, 1), [best |-> 0, score |-> -1]).best

getBestVideo(doc) ==
  LET st == bestLoop(doc, flatMapVideos(doc, 1), [best |-> 0, score |-> -1])
  IN  IF st.best # 0 THEN st.best
      ELSE IF Len(doc) > 0 THEN 1 ELSE 0

\* ------------------------------------------------------------------ hotkey
\* e = [key, ctrl, shift, alt, tag, editable]; key and tag may be "undefined".
toLowerCase(c) == CASE c = "S" -> "s" [] c = "A" -> "a" [] OTHER -> c
toUpperCase(c) ==
  CASE c = "input" -> "INPUT" [] c = "textarea" -> "TEXTAREA"
    [] c = "select" -> "SELECT" [] c = "div" -> "DIV" [] OTHER -> c

isInput(e) == toUpperCase(e.tag) \in { "INPUT", "TEXTAREA", "SELECT" } \/ e.editable

keyMatch(e) == e.key # "undefined" /\ toLowerCase(e.key) = toLowerCase(CFG.hotkey)

\* The modifier test without its Alt conjunct.
modsIgnoringAlt(e) ==
  /\ CFG.hotkeyCtrl = e.ctrl
  /\ CFG.hotkeyShift = e.shift

modsOK(e) ==
  /\ CFG.hotkeyCtrl = e.ctrl
  /\ CFG.hotkeyShift = e.shift
  /\ CFG.hotkeyAlt = e.alt

\* What the listener does with e: whether it calls e.preventDefault() and
\* whether it calls captureAndSave().
keydown(e) ==
  IF isInput(e) THEN [ prevented |-> FALSE, capture |-> FALSE ]
  ELSE IF keyMatch(e) /\ modsOK(e) THEN [ prevented |-> TRUE, capture |-> TRUE ]
  ELSE [ prevented |-> FALSE, capture |-> FALSE ]

\* ------------------------------------------------------------------ state
VARIABLES
  env,      \* what the host provides: rvfc (video.requestVideoFrameCallback), gm (GM_download)
  page,     \* the title-bearing elements, document.title and the playback position
  nInv,     \* number of captureAndSave() calls so far
  cap,      \* cap[i]: the i-th call of captureAndSave, its promises, timers and history
  ev,       \* KeySpec: the keydown event being dispatched
  kres,     \* KeySpec: what the listener did with it
  locDoc,   \* LocSpec: the document handed to getBestVideo
  locRes,   \* LocSpec: what getBestVideo returned (-1: not called yet)
  toast,    \* the player's .ytp-saveframe-toast node and its hide timers
  fnArg,    \* the argument of the helper under test (SanSpec, TspSpec)
  fnRes     \* the results it gave, in order

vars == << env, page, nInv, cap, ev, kres, locDoc, locRes, toast, fnArg, fnRes >>

NoEl == [ present |-> FALSE, text |-> << >>, content |-> << >> ]
TextEl(s) == [ present |-> TRUE, text |-> s, content |-> << >> ]

DemoVideo == << "D", "e", "m", "o", " ", "V", "i", "d", "e", "o" >>
ClipTitle == << "C", "l", "i", "p" >>

\* A watch page whose h1 carries the title, paused at 3.2 s; and a page with
\* only a <title> element, at 125.4567 s.
PageDemo ==
  [ els |-> << TextEl(DemoVideo), NoEl, NoEl, NoEl, TextEl(DemoVideo \o SuffixYouTube) >>,
    docTitle |-> DemoVideo \o SuffixYouTube,
    currentTime |-> 32000,
    playing |-> FALSE ]
PageClip ==
  [ els |-> << NoEl, NoEl, NoEl, NoEl, TextEl(ClipTitle \o SuffixYouTube) >>,
    docTitle |-> ClipTitle \o SuffixYouTube,
    currentTime |-> 1254567,
    playing |-> FALSE ]
Pages == { PageDemo, PageClip }

\* Video elements of a document.
VideoEls ==
  [ w : 0..MaxDim, h : 0..MaxDim, vis : BOOLEAN, sels : { {}, { SELECTORS.videos[1] } } ]
Docs == UNION { [ 1..n -> VideoEls ] : n \in 0..MaxVideos }

\* The documents a capture may find: no video, a visible one, a hidden one.
VisibleVideo == [ w |-> 1, h |-> 1, vis |-> TRUE, sels |-> { SELECTORS.videos[1] } ]
HiddenVideo == [ w |-> 1, h |-> 1, vis |-> FALSE, sels |-> { SELECTORS.videos[1] } ]
CaptureDocs == { << >>, << VisibleVideo >>, << HiddenVideo >> }

\* What the chosen video reports: videoWidth, videoHeight, readyState.
Readiness == [ videoWidth : {0, 640}, videoHeight : {0, 360}, readyState : {1, 2} ]
NoReadiness == [ videoWidth |-> 0, videoHeight |-> 0, readyState |-> 0 ]

Keys == { "s", "S", "a", "undefined" }
Tags == { "DIV", "INPUT", "textarea", "SELECT", "undefined" }
Events == [ key : Keys, ctrl : BOOLEAN, shift : BOOLEAN, alt : BOOLEAN,
            tag : Tags, editable : BOOLEAN ]
NoEvent == [ key |-> "undefined", ctrl |-> FALSE, shift |-> FALSE, alt |-> FALSE,
             tag |-> "undefined", editable |-> FALSE ]
NoKres == [ prevented |-> FALSE, capture |-> FALSE ]

IdleCap ==
  [ pc      |-> "idle",   \* idle, wait, encA, encB, encC, dl, done, failed
    err     |-> "none",   \* the Error the promise was rejected with
    caught  |-> FALSE,    \* the listener's .catch handler ran
    rdy     |-> NoReadiness,
    cb      |-> "none",   \* the requestVideoFrameCallback callback: none, pending, fired
    tm      |-> "none",   \* the 80 ms timer
    raf     |-> "none",   \* the requestAnimationFrame callback
    done    |-> FALSE,    \* the flag of waitNextPresentedFrame
    resolveCalls |-> 0,   \* calls of the wait promise's resolve()
    resumes |-> 0,        \* times the code after the await ran
    drawn   |-> FALSE,    \* drawImage returned
    drawnAt |-> -1,       \* video.currentTime when drawImage ran
    encLog  |-> << >>,    \* the encoder paths considered, in order, with what each did
    blob    |-> "none",   \* the path whose blob canvasToJpegBlob returned
    url     |-> "none",   \* the object URL: none, live, revoked
    rvTimer |-> "none",   \* the revoke timer: none, armed, fired
    revokes |-> 0,        \* calls of URL.revokeObjectURL on the URL
    dls     |-> << >>,    \* downloads handed to GM_download or the anchor
    notes   |-> << >>,    \* notify() calls made for this capture
    trace   |-> << >> ]   \* the stages, in the order they ran

\* The toast under the player: nodes counts the .ytp-saveframe-toast nodes,
\* show is the 'show' class, calls counts the notify calls, and timers lists
\* the pending hide timers, each named by the call that set it; all have the
\* same delay, so they fire in the order they were set.
NoToast ==
  [ nodes |-> 0, text |-> "none", show |-> FALSE, calls |-> 0, timers |-> << >> ]

\* ------------------------------------------------------------------ steps
\* A step of the code between two suspension points is a function on
\* st = [c |-> the capture's record]; its inputs (what the document, the
\* video, the canvas and the download report) are parameters.

\* notify(msg, player): the player is never null, since getPlayerFor falls
\* back to document.body.  notes is the list of messages put into the toast
\* for this capture.
notify(st, i, msg) ==
  IF ~CFG.showToast THEN st
  ELSE [ st EXCEPT !.c.notes = Append(@, msg), !.c.trace = Append(@, msg.kind),
                   !.t.nodes = IF @ = 0 THEN 1 ELSE @,
                   !.t.text = msg,
                   !.t.show = TRUE,
                   !.t.calls = @ + 1,
                   !.t.timers = Append(@, st.t.calls + 1) ]

SavedMsg(name) == [ kind |-> "saved", text |-> name ]
FailedMsg(e) == [ kind |-> "failed", text |-> e ]

\* A listener without the .catch handler: the rejection is not shown.
failUnreported(st, i, e) ==
  [ st EXCEPT !.c.pc = "failed", !.c.err = e ]

\* captureAndSave() rejects with e and the listener's .catch handler runs.
fail(st, i, e) ==
  notify([ st EXCEPT !.c.pc = "failed", !.c.err = e, !.c.caught = TRUE ], i, FailedMsg(e))

\* The readiness test with HAVE_METADATA (1) accepted.
notReadyBelowMetadata(r) == r.videoWidth = 0 \/ r.videoHeight = 0 \/ r.readyState < 1

\* if (!video.videoWidth || !video.videoHeight || video.readyState < 2)
notReady(r) == r.videoWidth = 0 \/ r.videoHeight = 0 \/ r.readyState < 2

\* waitNextPresentedFrame up to the return of the promise
startWait(st) ==
  IF env.rvfc
  THEN [ st EXCEPT !.c.pc = "wait", !.c.cb = "pending", !.c.tm = "pending",
                   !.c.trace = Append(@, "wait") ]
  ELSE [ st EXCEPT !.c.pc = "wait", !.c.raf = "pending",
                   !.c.trace = Append(@, "wait") ]

\* captureAndSave from its call to the first await
captureStart(st, i, doc, r) ==
  LET s1 == [ st EXCEPT !.c.trace = Append(@, "locate") ]
  IN  IF getBestVideo(doc) = 0 THEN fail(s1, i, "NoVideo")
      ELSE LET s2 == [ s1 EXCEPT !.c.rdy = r ]
           IN  IF notReady(r) THEN fail(s2, i, "NotReady") ELSE startWait(s2)

\* canvasToJpegBlob from path p on, up to its next await.  avA, avB: whether
\* the canvas has transferControlToOffscreen (and window has OffscreenCanvas),
\* and whether it has convertToBlob.
enterEncoder(st, p, avA, avB) ==
  LET skipA == [ st EXCEPT !.c.encLog = Append(@, << "a", "absent" >>) ]
      fromB(s) == IF avB THEN [ s EXCEPT !.c.pc = "encB" ]
                  ELSE [ s EXCEPT !.c.pc = "encC",
                                  !.c.encLog = Append(@, << "b", "absent" >>) ]
  IN  CASE p = "a" -> IF avA THEN [ st EXCEPT !.c.pc = "encA" ] ELSE fromB(skipA)
        [] p = "b" -> fromB(st)
        [] p = "c" -> [ st EXCEPT !.c.pc = "encC" ]

\* The code after the frame wait with the exception of drawImage ignored.
resumeIgnoringDraw(st, i, draw, avA, avB) ==
  enterEncoder([ st EXCEPT !.c.resumes = @ + 1, !.c.drawn = (draw = "ok"),
                           !.c.trace = Append(@, "draw") ],
               "a", avA, avB)

\* The code after the frame wait, to the first await of canvasToJpegBlob.
\* draw: whether ctx.drawImage returns ("ok") or throws ("throws").
resume(st, i, draw, avA, avB) ==
  LET s1 == [ st EXCEPT !.c.resumes = @ + 1 ]
  IN  IF draw = "throws" THEN fail(s1, i, "Blocked")
      ELSE enterEncoder([ s1 EXCEPT !.c.drawn = TRUE, !.c.drawnAt = page.currentTime,
                                    !.c.trace = Append(@, "draw") ],
                        "a", avA, avB)

\* The try/finally of captureAndSave up to the await of GM_download, or to
\* its end when GM_download is no function.
export(st, i, path) ==
  LET name == filenameOf(page)
      req(via) == [ name |-> name, blob |-> << i, path >>, url |-> i, via |-> via ]
      s1 == [ st EXCEPT !.c.blob = path, !.c.url = "live",
                        !.c.trace = @ \o << "encode", "name" >> ]
  IN  IF env.gm
      THEN [ s1 EXCEPT !.c.pc = "dl", !.c.dls = Append(@, req("gm")),
                       !.c.trace = Append(@, "export") ]
      ELSE LET s2 == [ s1 EXCEPT !.c.pc = "done", !.c.dls = Append(@, req("anchor")),
                                 !.c.trace = Append(@, "export") ]
               s3 == notify(s2, i, SavedMsg(name))
           IN  [ s3 EXCEPT !.c.rvTimer = "armed" ]

\* canvasToJpegBlob without its try/catch blocks: the first exception is
\* the result.
encodeDoneUncaught(st, i, out, avB) ==
  LET p  == CASE st.c.pc = "encA" -> "a" [] st.c.pc = "encB" -> "b" [] OTHER -> "c"
      s1 == [ st EXCEPT !.c.encLog = Append(@, << p, out >>) ]
  IN  IF out = "ok" THEN export(s1, i, p)
      ELSE fail(s1, i, IF out = "null" THEN "EncNull" ELSE "EncThrow")

\* An encoder promise settles: out is "ok", "throw" or, for toBlob, "null".
encodeDone(st, i, out, avB) ==
  LET p  == CASE st.c.pc = "encA" -> "a" [] st.c.pc = "encB" -> "b" [] OTHER -> "c"
      s1 == [ st EXCEPT !.c.encLog = Append(@, << p, out >>) ]
  IN  IF out = "ok" THEN export(s1, i, p)
      ELSE CASE p = "a" -> enterEncoder(s1, "b", FALSE, avB)
             [] p = "b" -> enterEncoder(s1, "c", FALSE, avB)
             [] p = "c" -> fail(s1, i, IF out = "null" THEN "EncNull" ELSE "EncThrow")

\* The export without its finally block: the revoke timer is set only
\* after onload.
downloadDoneNoFinally(st, i, out) ==
  IF out = "onload"
  THEN LET s1 == notify([ st EXCEPT !.c.pc = "done" ], i, SavedMsg(st.c.dls[1].name))
       IN  [ s1 EXCEPT !.c.rvTimer = "armed" ]
  ELSE fail(st, i, IF out = "onerror" THEN "DlError" ELSE "DlTimeout")

\* GM_download calls onload, onerror or ontimeout.
downloadDone(st, i, out) ==
  IF out = "onload"
  THEN LET s1 == notify([ st EXCEPT !.c.pc = "done" ], i, SavedMsg(st.c.dls[1].name))
       IN  [ s1 EXCEPT !.c.rvTimer = "armed" ]
  ELSE fail([ st EXCEPT !.c.rvTimer = "armed" ], i,
            IF out = "onerror" THEN "DlError" ELSE "DlTimeout")

\* The callbacks without the done flag.
ResolveAlways(doneFlag) == TRUE

\* if (!done) { done = true; resolve(); }
ShouldResolve(doneFlag) == ~doneFlag

\* ------------------------------------------------------------------ actions
St(i) == [ c |-> cap[i], t |-> toast ]

Put(i, st) == cap' = [ cap EXCEPT ![i] = st.c ] /\ toast' = st.t

\* The listener calls captureAndSave().
StartCapture ==
  /\ nInv < Len(cap)
  /\ nInv' = nInv + 1
  /\ \E doc \in CaptureDocs, r \in Readiness :
       Put(nInv + 1, captureStart(St(nInv + 1), nInv + 1, doc, r))

\* A keydown event that the listener answers with a capture.
KeyPress ==
  /\ \E e \in Events : keydown(e).capture
  /\ StartCapture
  /\ UNCHANGED << env, page, ev, kres, locDoc, locRes, fnArg, fnRes >>

\* resolve() of the wait promise, and with it the code after the await when
\* the promise was pending.
Resolved(i, c1) ==
  LET c2 == [ c1 EXCEPT !.resolveCalls = @ + 1 ]
  IN  IF c1.pc = "wait"
      THEN \E draw \in { "ok", "throws" }, avA \in BOOLEAN, avB \in BOOLEAN :
             Put(i, resume([ c |-> c2, t |-> toast ], i, draw, avA, avB))
      ELSE Put(i, [ c |-> c2, t |-> toast ])

\* The requestVideoFrameCallback callback runs.
FrameCallback(i) ==
  /\ cap[i].cb = "pending"
  /\ IF ShouldResolve(cap[i].done)
     THEN Resolved(i, [ cap[i] EXCEPT !.cb = "fired", !.done = TRUE ])
     ELSE Put(i, [ c |-> [ cap[i] EXCEPT !.cb = "fired" ], t |-> toast ])
  /\ UNCHANGED << env, page, nInv, ev, kres, locDoc, locRes, fnArg, fnRes >>

\* The 80 ms timer of waitNextPresentedFrame fires.
FrameTimer(i) ==
  /\ cap[i].tm = "pending"
  /\ IF ShouldResolve(cap[i].done)
     THEN Resolved(i, [ cap[i] EXCEPT !.tm = "fired", !.done = TRUE ])
     ELSE Put(i, [ c |-> [ cap[i] EXCEPT !.tm = "fired" ], t |-> toast ])
  /\ UNCHANGED << env, page, nInv, ev, kres, locDoc, locRes, fnArg, fnRes >>

\* The requestAnimationFrame callback runs.
AnimationFrame(i) ==
  /\ cap[i].raf = "pending"
  /\ Resolved(i, [ cap[i] EXCEPT !.raf = "fired" ])
  /\ UNCHANGED << env, page, nInv, ev, kres, locDoc, locRes, fnArg, fnRes >>

\* What a pending encoder can report: convertToBlob resolves or rejects;
\* toBlob calls back with a blob or with null, or throws.
EncOutcomes(p) == IF p = "encC" THEN { "ok", "throw", "null" } ELSE { "ok", "throw" }

\* convertToBlob settles or toBlob calls back.
EncodeDone(i) ==
  /\ cap[i].pc \in { "encA", "encB", "encC" }
  /\ \E out \in EncOutcomes(cap[i].pc), avB \in BOOLEAN :
       Put(i, encodeDone(St(i), i, out, avB))
  /\ UNCHANGED << env, page, nInv, ev, kres, locDoc, locRes, fnArg, fnRes >>

\* GM_download reports.
DownloadDone(i) ==
  /\ cap[i].pc = "dl"
  /\ \E out \in { "onload", "onerror", "ontimeout" } :
       Put(i, downloadDone(St(i), i, out))
  /\ UNCHANGED << env, page, nInv, ev, kres, locDoc, locRes, fnArg, fnRes >>

\* A revoke timer working on a url shared by all captures: it revokes every
\* object URL that is live.
RevokeShared(i) ==
  /\ cap[i].rvTimer = "armed"
  /\ cap' = [ k \in DOMAIN cap |->
               IF k = i \/ cap[k].url = "live"
               THEN [ cap[k] EXCEPT !.rvTimer = IF k = i THEN "fired" ELSE @,
                                    !.revokes = @ + 1,
                                    !.url = "revoked",
                                    !.trace = Append(@, "revoke") ]
               ELSE cap[k] ]
  /\ UNCHANGED << env, page, nInv, ev, kres, locDoc, locRes, toast, fnArg, fnRes >>

\* setTimeout(() => URL.revokeObjectURL(url), 2000) fires.
RevokeTimer(i) ==
  /\ cap[i].rvTimer = "armed"
  /\ cap' = [ cap EXCEPT ![i] = [ @ EXCEPT !.rvTimer = "fired", !.revokes = @ + 1,
                                          !.url = "revoked",
                                          !.trace = Append(@, "revoke") ] ]
  /\ UNCHANGED << env, page, nInv, ev, kres, locDoc, locRes, toast, fnArg, fnRes >>

\* A keydown event is dispatched to the listener (KeySpec).
KeyDispatch ==
  /\ ev.pending
  /\ ev' = [ ev EXCEPT !.pending = FALSE ]
  /\ kres' = keydown(ev.e)
  /\ IF keydown(ev.e).capture THEN StartCapture ELSE UNCHANGED << nInv, cap, toast >>
  /\ UNCHANGED << env, page, locDoc, locRes, fnArg, fnRes >>

\* getBestVideo() is called on the document (LocSpec).
Locate ==
  /\ locRes = -1
  /\ locRes' = getBestVideo(locDoc)
  /\ UNCHANGED << env, page, nInv, cap, ev, kres, locDoc, toast, fnArg, fnRes >>

\* captureAndSave() is called on the document locDoc (DocSpec).
CaptureDoc ==
  /\ nInv < Len(cap)
  /\ nInv' = nInv + 1
  /\ \E r \in Readiness :
       Put(nInv + 1, captureStart(St(nInv + 1), nInv + 1, locDoc, r))
  /\ UNCHANGED << env, page, ev, kres, locDoc, locRes, fnArg, fnRes >>

Quiet(n) ==
  /\ env \in [ rvfc : BOOLEAN, gm : BOOLEAN ]
  /\ page \in Pages
  /\ nInv = 0
  /\ cap = [ i \in 1..n |-> IdleCap ]
  /\ toast = NoToast

Init ==
  /\ Quiet(MaxInv)
  /\ ev = [ e |-> NoEvent, pending |-> FALSE ]
  /\ kres = NoKres
  /\ locDoc = << >>
  /\ locRes = -1
  /\ fnArg = << >>
  /\ fnRes = << >>

Next ==
  \/ KeyPress
  \/ \E i \in DOMAIN cap : FrameCallback(i)
  \/ \E i \in DOMAIN cap : FrameTimer(i)
  \/ \E i \in DOMAIN cap : AnimationFrame(i)
  \/ \E i \in DOMAIN cap : EncodeDone(i)
  \/ \E i \in DOMAIN cap : DownloadDone(i)
  \/ \E i \in DOMAIN cap : RevokeTimer(i)

Spec == Init /\ [][Next]_vars

\* Timers fire, encoder promises settle and GM_download reports; nothing
\* makes the frame callback or the animation frame run, nor a key be pressed.
Guaranteed ==
  \/ \E i \in DOMAIN cap : FrameTimer(i)
  \/ \E i \in DOMAIN cap : EncodeDone(i)
  \/ \E i \in DOMAIN cap : DownloadDone(i)
  \/ \E i \in DOMAIN cap : RevokeTimer(i)

FairSpec == Init /\ [][Next]_vars /\ WF_vars(Guaranteed)

\* Two hotkey presses, the second at any time.
ReInit ==
  /\ Quiet(MaxPresses)
  /\ ev = [ e |-> NoEvent, pending |-> FALSE ]
  /\ kres = NoKres
  /\ locDoc = << >>
  /\ locRes = -1
  /\ fnArg = << >>
  /\ fnRes = << >>

ReSpec == ReInit /\ [][Next]_vars

\* One keydown event, any of Events.
KeyInit ==
  /\ Quiet(1)
  /\ ev \in [ e : Events, pending : { TRUE } ]
  /\ kres = NoKres
  /\ locDoc = << >>
  /\ locRes = -1
  /\ fnArg = << >>
  /\ fnRes = << >>

KeySpec == KeyInit /\ [][KeyDispatch]_vars

\* One call of getBestVideo, on any of Docs.
LocInit ==
  /\ env = [ rvfc |-> TRUE, gm |-> TRUE ]
  /\ page = PageDemo
  /\ nInv = 0
  /\ cap = [ i \in 1..1 |-> IdleCap ]
  /\ toast = NoToast
  /\ ev = [ e |-> NoEvent, pending |-> FALSE ]
  /\ kres = NoKres
  /\ locDoc \in Docs
  /\ locRes = -1
  /\ fnArg = << >>
  /\ fnRes = << >>

LocSpec == LocInit /\ [][Locate]_vars

\* One call of getBestVideo and one capture, on any of Docs.
DocInit ==
  /\ env \in [ rvfc : BOOLEAN, gm : { TRUE } ]
  /\ page = PageDemo
  /\ nInv = 0
  /\ cap = [ i \in 1..1 |-> IdleCap ]
  /\ toast = NoToast
  /\ ev = [ e |-> NoEvent, pending |-> FALSE ]
  /\ kres = NoKres
  /\ locDoc \in Docs
  /\ locRes = -1
  /\ fnArg = << >>
  /\ fnRes = << >>

DocNext ==
  \/ Locate
  \/ CaptureDoc
  \/ \E i \in DOMAIN cap : FrameCallback(i)
  \/ \E i \in DOMAIN cap : FrameTimer(i)
  \/ \E i \in DOMAIN cap : AnimationFrame(i)
  \/ \E i \in DOMAIN cap : EncodeDone(i)
  \/ \E i \in DOMAIN cap : DownloadDone(i)
  \/ \E i \in DOMAIN cap : RevokeTimer(i)

DocSpec == DocInit /\ [][DocNext]_vars

\* setTimeout(() => toast.classList.remove('show'), ms) of the oldest
\* pending notify fires.
HideTimer ==
  /\ toast.timers # << >>
  /\ toast' = [ toast EXCEPT !.show = FALSE, !.timers = Tail(@) ]
  /\ UNCHANGED << env, page, nInv, cap, ev, kres, locDoc, locRes, fnArg, fnRes >>

\* Up to MaxPresses hotkey presses, with the toast's hide timers running.
ToastInit ==
  /\ env = [ rvfc |-> TRUE, gm |-> TRUE ]
  /\ page = PageDemo
  /\ nInv = 0
  /\ cap = [ i \in 1..MaxPresses |-> IdleCap ]
  /\ toast = NoToast
  /\ ev = [ e |-> NoEvent, pending |-> FALSE ]
  /\ kres = NoKres
  /\ locDoc = << >>
  /\ locRes = -1
  /\ fnArg = << >>
  /\ fnRes = << >>

ToastNext ==
  \/ KeyPress
  \/ HideTimer
  \/ \E i \in DOMAIN cap : FrameCallback(i)
  \/ \E i \in DOMAIN cap : FrameTimer(i)
  \/ \E i \in DOMAIN cap : EncodeDone(i)
  \/ \E i \in DOMAIN cap : DownloadDone(i)
  \/ \E i \in DOMAIN cap : RevokeTimer(i)

ToastSpec == ToastInit /\ [][ToastNext]_vars

\* One frame of a playing video: 1/25 s.
FrameStep == UnitsPerSec \div 25

\* The video, not paused, presents its next frame.
Playback ==
  /\ page.playing
  /\ page.currentTime < PageDemo.currentTime + MaxFrames * FrameStep
  /\ page' = [ page EXCEPT !.currentTime = @ + FrameStep ]
  /\ UNCHANGED << env, nInv, cap, ev, kres, locDoc, locRes, toast, fnArg, fnRes >>

\* The hotkey pressed while the video plays (CFG.autoPause is false, so
\* captureAndSave does not pause it).
PlayInit ==
  /\ env \in [ rvfc : BOOLEAN, gm : BOOLEAN ]
  /\ page = [ PageDemo EXCEPT !.playing = TRUE ]
  /\ nInv = 0
  /\ cap = [ i \in 1..1 |-> IdleCap ]
  /\ toast = NoToast
  /\ ev = [ e |-> NoEvent, pending |-> FALSE ]
  /\ kres = NoKres
  /\ locDoc = << >>
  /\ locRes = -1
  /\ fnArg = << >>
  /\ fnRes = << >>

PlayNext ==
  \/ Playback
  \/ KeyPress
  \/ \E i \in DOMAIN cap : FrameCallback(i)
  \/ \E i \in DOMAIN cap : FrameTimer(i)
  \/ \E i \in DOMAIN cap : AnimationFrame(i)
  \/ \E i \in DOMAIN cap : EncodeDone(i)
  \/ \E i \in DOMAIN cap : DownloadDone(i)
  \/ \E i \in DOMAIN cap : RevokeTimer(i)

PlaySpec == PlayInit /\ [][PlayNext]_vars

\* The variables a helper specification leaves alone.
HelperInit ==
  /\ env = [ rvfc |-> TRUE, gm |-> TRUE ]
  /\ nInv = 0
  /\ cap = [ i \in 1..1 |-> IdleCap ]
  /\ toast = NoToast
  /\ ev = [ e |-> NoEvent, pending |-> FALSE ]
  /\ kres = NoKres
  /\ locDoc = << >>
  /\ locRes = -1

\* Titles: all strings of up to MaxLen characters over an ordinary
\* character, a space, an illegal character and a control character, alone
\* or after 178 to 180 ordinary characters.
SanAlphabet == { "a", " ", "/", "\t" }
ShortStrings == UNION { [ 1..n -> SanAlphabet ] : n \in 0..MaxLen }
Pad(n) == [ k \in 1..n |-> "a" ]
PadLens == { 0 } \cup ((MaxTitleLen - 2)..MaxTitleLen)
SanInputs == { Pad(n) \o s : n \in PadLens, s \in ShortStrings }

\* sanitizeFilename is applied to the title, then to its own result.
Sanitize ==
  /\ Len(fnRes) < 2
  /\ fnRes' = Append(fnRes, sanitizeFilename(IF fnRes = << >> THEN fnArg
                                              ELSE fnRes[Len(fnRes)]))
  /\ UNCHANGED << env, page, nInv, cap, ev, kres, locDoc, locRes, toast, fnArg >>

SanInit ==
  /\ HelperInit
  /\ page = PageDemo
  /\ fnArg \in SanInputs
  /\ fnRes = << >>

SanSpec == SanInit /\ [][Sanitize]_vars

\* Playback positions: whole hours, minutes and seconds at the ends and inside
\* their ranges, with fractions of a second next to the rounding steps.
Fractions == { 0, 4, 5, 2000, 4567, 9994, 9995, 9999 }
TspInputs ==
  { ((h * 60 + m) * 60 + s) * UnitsPerSec + f :
      h \in 0..MaxHours, m \in { 0, 2, 59 }, s \in { 0, 5, 59 }, f \in Fractions }

\* tsp is applied to the playback position.
FormatTime ==
  /\ fnRes = << >>
  /\ fnRes' = << tsp(fnArg) >>
  /\ UNCHANGED << env, page, nInv, cap, ev, kres, locDoc, locRes, toast, fnArg >>

TspInit ==
  /\ HelperInit
  /\ page = PageDemo
  /\ fnArg \in TspInputs
  /\ fnRes = << >>

TspSpec == TspInit /\ [][FormatTime]_vars

\* Pages as the title loop sees them.  A heading selector finds nothing, an
\* element with text, one with whitespace-only text or one with no text; the
\* meta selector finds nothing, an element with a 'content' attribute or one
\* without; the document has no title element, or one whose text is
\* document.title, with or without the " - YouTube" suffix.
BlankEl == [ present |-> TRUE, text |-> << " ", "\n" >>, content |-> << >> ]
EmptyEl == [ present |-> TRUE, text |-> << >>, content |-> << >> ]
MetaEl(s) == [ present |-> TRUE, text |-> << >>, content |-> s ]
MetaName == << "M", "e", "t", "a" >>
DocName == << "D", "o", "c" >>
HeadingEls == { NoEl, TextEl(ClipTitle), BlankEl, EmptyEl }
MetaEls == { NoEl, MetaEl(MetaName), EmptyEl }
DocTitles == { << >>, DocName, DocName \o SuffixYouTube }
TitlePages ==
  { [ els |-> << h1, h2, h3, m, IF d = << >> THEN NoEl ELSE TextEl(d) >>,
      docTitle |-> d,
      currentTime |-> PageDemo.currentTime,
      playing |-> FALSE ] :
      h1 \in HeadingEls, h2 \in HeadingEls, h3 \in HeadingEls, m \in MetaEls,
      d \in DocTitles }

\* The title lines of captureAndSave run on the page.
ReadTitle ==
  /\ fnRes = << >>
  /\ fnRes' = << [ titleText |-> titleText(page),
                   title |-> sanitizeFilename(titleText(page)) ] >>
  /\ UNCHANGED << env, page, nInv, cap, ev, kres, locDoc, locRes, toast, fnArg >>

TitleInit ==
  /\ HelperInit
  /\ page \in TitlePages
  /\ fnArg = << >>
  /\ fnRes = << >>

TitleSpec == TitleInit /\ [][ReadTitle]_vars

\* ------------------------------------------------------------------ claims
Caps == DOMAIN cap
Started(c) == c.pc # "idle"
Failures == { "NoVideo", "NotReady", "Blocked", "EncNull", "EncThrow", "DlError", "DlTimeout" }
IsSaved(m) == m.kind = "saved"

\* C1: a capture that fails at any stage (no video, video not ready, draw
\* blocked, every encoder failed, download error or timeout) has its
\* rejection caught by the listener and shown by notify as one "Save failed"
\* message carrying the error; no "Saved" message is shown for it; and the
\* listener still answers a later matching key press with a new capture.
C1_FailureReported ==
  \A i \in Caps :
    LET c == cap[i]
    IN  /\ c.pc = "failed" =>
              /\ c.err \in Failures
              /\ c.caught
              /\ c.notes = << FailedMsg(c.err) >>
              /\ nInv < Len(cap) => ENABLED KeyPress
        /\ c.pc # "failed" => c.err = "none" /\ ~c.caught
        /\ \A k \in 1..Len(c.notes) : IsSaved(c.notes[k]) => c.pc = "done"

\* C1 witness: the first capture failed on a download error, and a later key
\* press has started the second capture.
C1_Witness ==
  /\ Len(cap) >= 2
  /\ cap[1].pc = "failed" /\ cap[1].err = "DlError"
  /\ cap[1].notes = << FailedMsg("DlError") >>
  /\ cap[2].pc = "wait"

UrlSafe(c) ==
  /\ c.revokes <= 1
  /\ c.url = "revoked" <=> c.revokes = 1
  /\ c.rvTimer = "fired" <=> c.revokes = 1
  /\ c.url # "none" /\ c.pc \in { "done", "failed" } => c.rvTimer # "none"
  /\ c.rvTimer # "none" => c.url # "none" /\ Len(c.dls) = 1
  /\ c.revokes > 0 =>
        \E k, m \in 1..Len(c.trace) : k < m /\ c.trace[k] = "export" /\ c.trace[m] = "revoke"

\* C2: an object URL created by captureAndSave has its release scheduled on
\* either export path, whether the export succeeds or fails; it is revoked
\* eventually, once, and only after the download was handed to GM_download
\* or to the anchor.
C2_UrlReleased ==
  /\ [](\A i \in 1..MaxInv : UrlSafe(cap[i]))
  /\ \A i \in 1..MaxInv : (cap[i].url = "live") ~> (cap[i].url = "revoked")

\* C2 witness: GM_download reported an error and the URL has been revoked.
C2_Witness ==
  /\ cap[1].err = "DlError"
  /\ cap[1].url = "revoked"
  /\ cap[1].revokes = 1

\* C3: the frame wait never rejects and ends on both branches (with
\* requestVideoFrameCallback, or with requestAnimationFrame in its place),
\* even when the frame callback or the animation frame never runs.
C3_WaitTerminates ==
  \A i \in 1..MaxInv : (cap[i].pc = "wait") ~> (cap[i].pc # "wait")

\* The wait on the requestAnimationFrame branch: one callback pending, no timer.
C3_Witness ==
  /\ ~env.rvfc
  /\ cap[1].pc = "wait" /\ cap[1].raf = "pending"
  /\ cap[1].cb = "none" /\ cap[1].tm = "none"

\* C4: with requestVideoFrameCallback present, the frame callback and the
\* 80 ms timer race; resolve() is called once, by the first to fire, the
\* second is a no-op, and the code after the wait runs once.
C4_ResolvedOnce ==
  \A i \in Caps :
    LET c == cap[i]
    IN  env.rvfc =>
          /\ c.resolveCalls <= 1
          /\ c.resumes <= 1
          /\ (c.cb = "fired" \/ c.tm = "fired") => c.resolveCalls = 1 /\ c.resumes = 1
          /\ c.pc = "wait" <=> c.cb = "pending" /\ c.tm = "pending"
          /\ c.raf = "none"

\* C4 witness: both the frame callback and the timer have fired.
C4_Witness ==
  /\ env.rvfc
  /\ cap[1].cb = "fired" /\ cap[1].tm = "fired"
  /\ cap[1].resolveCalls = 1 /\ cap[1].resumes = 1

EncPaths == << "a", "b", "c" >>
LastOf(s) == s[Len(s)]

\* C5: the encoders are considered in the order a, b, c; a path that is
\* absent or throws is passed over and the next one is tried; the blob
\* returned and downloaded is that of the first path that succeeds, and the
\* encoding fails only when every path has failed.
C5_EncoderFallback ==
  \A i \in Caps :
    LET c == cap[i]
        log == c.encLog
    IN  /\ Len(log) <= 3
        /\ \A k \in 1..Len(log) : log[k][1] = EncPaths[k]
        /\ \A k \in 1..Len(log) : k < Len(log) => log[k][2] # "ok"
        /\ c.blob # "none" <=> Len(log) > 0 /\ LastOf(log)[2] = "ok"
        /\ c.blob # "none" =>
              /\ c.blob = LastOf(log)[1]
              /\ Len(c.dls) = 1 /\ c.dls[1].blob = << i, c.blob >>
              /\ c.err \notin { "EncNull", "EncThrow" }
        /\ c.err \in { "EncNull", "EncThrow" } =>
              Len(log) = 3 /\ \A k \in 1..3 : log[k][2] # "ok"
        /\ (Len(log) > 0 /\ LastOf(log)[2] # "ok" /\ Len(log) < 3) =>
              c.pc \in { "encB", "encC" }

\* C5 witness: the primary path threw, toBlob produced the blob, and the
\* capture succeeded with it.
C5_Witness ==
  /\ Len(cap[1].encLog) = 3
  /\ cap[1].encLog[1] = << "a", "throw" >>
  /\ cap[1].blob = "c"
  /\ cap[1].pc = "done"

\* C6: when drawImage throws, the capture fails with the CaptureBlocked
\* error and nothing is encoded, no object URL is created and no download
\* is triggered.
C6_CaptureBlocked ==
  \A i \in Caps :
    LET c == cap[i]
        blocked == c.resumes > 0 /\ ~c.drawn
    IN  /\ blocked <=> c.err = "Blocked"
        /\ blocked =>
              /\ c.pc = "failed"
              /\ c.notes = << FailedMsg("Blocked") >>
              /\ c.encLog = << >> /\ c.blob = "none"
              /\ c.url = "none" /\ c.rvTimer = "none"
              /\ c.dls = << >>

\* C6 witness: a capture whose drawImage threw.
C6_Witness ==
  /\ cap[1].err = "Blocked"
  /\ cap[1].resumes = 1 /\ ~cap[1].drawn

\* C7: a video without natural width or height, or with readyState < 2,
\* makes captureAndSave fail with VideoNotReady before any frame wait, draw,
\* encode, object URL or download; any other video takes it to the frame wait.
C7_VideoNotReady ==
  \A i \in Caps :
    LET c == cap[i]
        found == Started(c) /\ c.err # "NoVideo"
        lacking == c.rdy.videoWidth = 0 \/ c.rdy.videoHeight = 0 \/ c.rdy.readyState < 2
    IN  /\ found /\ lacking =>
              /\ c.pc = "failed" /\ c.err = "NotReady"
              /\ c.trace = << "locate", "failed" >>
              /\ c.cb = "none" /\ c.tm = "none" /\ c.raf = "none"
              /\ c.resumes = 0 /\ ~c.drawn /\ c.encLog = << >>
              /\ c.url = "none" /\ c.dls = << >>
        /\ found /\ ~lacking =>
              /\ c.err # "NotReady"
              /\ Len(c.trace) >= 2 /\ c.trace[2] = "wait"

\* C7 witness: a video with known dimensions and readyState 1 was refused.
C7_Witness ==
  /\ cap[1].err = "NotReady"
  /\ cap[1].rdy = [ videoWidth |-> 640, videoHeight |-> 360, readyState |-> 1 ]

\* C8: a keydown starts a capture iff its key is the configured key in
\* either case, its Ctrl, Shift and Alt flags are those configured
\* (Ctrl+Shift, no Alt) and its target is no INPUT, TEXTAREA or SELECT and
\* not content-editable; any other keydown starts nothing and keeps its
\* default action.
C8_HotkeyOnly ==
  LET e == ev.e
      hotkey == /\ e.key \in { "s", "S" }
                /\ e.ctrl /\ e.shift /\ ~e.alt
                /\ e.tag \notin { "INPUT", "input", "TEXTAREA", "textarea", "SELECT", "select" }
                /\ ~e.editable
  IN  /\ ev.pending => nInv = 0 /\ ~kres.prevented
      /\ ~ev.pending /\ e # NoEvent =>
            /\ kres.capture <=> hotkey
            /\ kres.prevented <=> hotkey
            /\ nInv = (IF hotkey THEN 1 ELSE 0)
            /\ Started(cap[1]) <=> hotkey

\* C8 witness: Ctrl+Shift+S (key "S") on a DIV started a capture.
C8_Witness ==
  /\ ~ev.pending
  /\ ev.e = [ key |-> "S", ctrl |-> TRUE, shift |-> TRUE, alt |-> FALSE,
              tag |-> "DIV", editable |-> FALSE ]
  /\ kres.capture /\ kres.prevented
  /\ cap[1].pc = "wait"

DemoName ==
  << "D", "e", "m", "o", " ", "V", "i", "d", "e", "o", " ", "-", " ",
     "0", "0", "-", "0", "0", "-", "0", "3", ".", "2", "0", "0", ".", "j", "p", "g" >>
ClipName ==
  << "C", "l", "i", "p", " ", "-", " ", "Y", "o", "u", "T", "u", "b", "e", " ", "-", " ",
     "0", "0", "-", "0", "2", "-", "0", "5", ".", "4", "5", "7", ".", "j", "p", "g" >>
SuccessTrace == << "locate", "wait", "draw", "encode", "name", "export", "saved" >>

\* C9: a capture whose stages all succeed triggers one download, of the blob
\* it encoded, named "{title} - {HH}-{MM}-{SS}.{mmm}.jpg" ("Demo Video" at
\* 3.2 s: "Demo Video - 00-00-03.200.jpg"); the stages run in the order
\* locate, frame wait, draw, encode, name, export, and "Saved" is shown only
\* after the export.
C9_OneDownload ==
  \A i \in Caps :
    LET c == cap[i]
        name == IF page = PageDemo THEN DemoName ELSE ClipName
    IN  /\ Len(c.dls) <= 1
        /\ c.pc = "done" =>
              /\ Len(c.dls) = 1
              /\ c.dls[1].name = name
              /\ c.blob # "none" /\ c.dls[1].blob = << i, c.blob >>
              /\ c.dls[1].via = (IF env.gm THEN "gm" ELSE "anchor")
              /\ c.notes = << SavedMsg(name) >>
              /\ c.trace \in { SuccessTrace, Append(SuccessTrace, "revoke") }
        /\ \A k \in 1..Len(c.notes) : IsSaved(c.notes[k]) => c.pc = "done"
        /\ c.pc = "dl" => c.notes = << >>

\* C9 witness: on the "Demo Video" page at 3.2 s, GM_download has reported
\* the download complete.
C9_Witness ==
  /\ page = PageDemo /\ env.gm
  /\ cap[1].pc = "done"
  /\ cap[1].dls[1].name = DemoName

\* C10: getBestVideo returns a qualifying candidate (visible, width > 0,
\* height > 0) of maximal area, the first such in the order of enumeration,
\* whenever a candidate qualifies.
C10_BestVideo ==
  LET doc  == locDoc
      list == flatMapVideos(doc, 1)
      Q    == { j \in 1..Len(doc) : doc[j].vis /\ doc[j].w > 0 /\ doc[j].h > 0 }
      area(j) == doc[j].w * doc[j].h
      pos(j) == CHOOSE k \in 1..Len(list) :
                  list[k] = j /\ \A m \in 1..(k - 1) : list[m] # j
  IN  (locRes # -1 /\ Q # {}) =>
        /\ locRes \in Q
        /\ \A j \in Q : area(j) <= area(locRes)
        /\ \A j \in Q : area(j) = area(locRes) => pos(locRes) <= pos(j)

\* C10 witness: two qualifying candidates of the same, maximal area; the
\* second in the document is enumerated first and is returned.
C10_Witness ==
  /\ locRes = 2
  /\ Len(locDoc) = 2
  /\ locDoc[1].vis /\ locDoc[2].vis
  /\ locDoc[1].w * locDoc[1].h = locDoc[2].w * locDoc[2].h
  /\ locDoc[1].w > 0 /\ locDoc[1].h > 0

\* C11: when no candidate qualifies, getBestVideo returns the first video
\* element of the document, visible or not, if there is one; on a document
\* without video elements the capture fails with "Video element not found"
\* and no later stage runs.
C11_Fallback ==
  LET doc == locDoc
      Q   == { j \in 1..Len(doc) : doc[j].vis /\ doc[j].w > 0 /\ doc[j].h > 0 }
      c   == cap[1]
  IN  /\ (locRes # -1 /\ Q = {}) => locRes = (IF Len(doc) > 0 THEN 1 ELSE 0)
      /\ Started(c) => (c.err = "NoVideo" <=> Len(doc) = 0)
      /\ c.err = "NoVideo" =>
            /\ c.pc = "failed"
            /\ c.trace = << "locate", "failed" >>
            /\ c.notes = << FailedMsg("NoVideo") >>
            /\ c.rdy = NoReadiness
            /\ c.cb = "none" /\ c.tm = "none" /\ c.raf = "none"
            /\ c.resumes = 0 /\ ~c.drawn /\ c.encLog = << >>
            /\ c.url = "none" /\ c.dls = << >>

\* C11 witness: two video elements, neither visible; getBestVideo returned
\* the first and the capture went on to the frame wait.
C11_Witness ==
  /\ Len(locDoc) = 2
  /\ ~locDoc[1].vis /\ ~locDoc[2].vis
  /\ locRes = 1
  /\ cap[1].pc = "wait"

\* C12: sanitizeFilename is idempotent: applied to its own result it gives
\* that result again, for every title, the empty one and those longer than
\* 180 characters included.
C12_Idempotent ==
  Len(fnRes) = 2 => fnRes[2] = fnRes[1]

\* A title of 181 characters whose 180th is a space, sanitized twice.
C12_Witness ==
  /\ fnArg = Pad(MaxTitleLen - 1) \o << " ", "a" >>
  /\ Len(fnRes) = 2

\* C13: the sanitized title is never empty: when replacing, collapsing,
\* trimming and truncating leave nothing, the result is "YouTube".
C13_NeverEmpty ==
  Len(fnRes) >= 1 => fnRes[1] # << >>

\* A title made of whitespace only, sanitized.
C13_Witness ==
  /\ fnArg = << " ", "\t" >>
  /\ Len(fnRes) = 1

\* The w decimal digits of n, the lowest last.
Dec(n, w) == [ k \in 1..w |-> Digit((n \div 10 ^ (w - k)) % 10) ]

\* C14: the timestamp of a playback position is HH-MM-SS.mmm: the floored
\* hours, minutes (0..59) and seconds (0..59) in 2 digits, and the rounded
\* milliseconds in exactly 3 digits, 000..999; 125.4567 s gives 00-02-05.457.
C14_TimeFormat ==
  fnRes # << >> =>
    LET r    == fnRes[1]
        secs == fnArg \div UnitsPerSec
        ms   == ((fnArg % UnitsPerSec) * 1000 + UnitsPerSec \div 2) \div UnitsPerSec
    IN  /\ r.hh = Dec(secs \div 3600, 2)
        /\ r.mm = Dec((secs \div 60) % 60, 2)
        /\ r.ss = Dec(secs % 60, 2)
        /\ Len(r.ms) = 3
        /\ ms \in 0..999
        /\ r.ms = Dec(ms, 3)

\* The position 125.4567 s, formatted.
C14_Witness ==
  /\ fnArg = 125 * UnitsPerSec + 4567
  /\ fnRes = << [ hh |-> << "0", "0" >>, mm |-> << "0", "2" >>,
                  ss |-> << "0", "5" >>, ms |-> << "4", "5", "7" >> ] >>

\* What an element offers as a title: its text without surrounding
\* whitespace, or else its 'content' attribute.
Offered(el) ==
  IF ~el.present THEN << >>
  ELSE IF Trim(el.text) # << >> THEN Trim(el.text)
  ELSE el.content

\* C15: the title is the first non-empty text or 'content' value found along
\* SELECTORS.titles: an element with empty or whitespace-only text is passed
\* over and the next selector is consulted, so a heading or meta element
\* further down the list is used before the page title.
C15_FirstNonEmpty ==
  fnRes # << >> =>
    LET offering == { k \in 1..(Len(SELECTORS.titles) - 1) :
                        Offered(page.els[k]) # << >> }
    IN  offering # {} =>
          fnRes[1].titleText =
            Offered(page.els[CHOOSE k \in offering : \A m \in offering : k <= m])

\* The first heading is whitespace-only, the second carries the title.
C15_Witness ==
  /\ fnRes # << >>
  /\ page.els[1] = BlankEl
  /\ page.els[2] = TextEl(ClipTitle)

EndsWith(s, suffix) ==
  /\ Len(s) >= Len(suffix)
  /\ SubSeq(s, Len(s) - Len(suffix) + 1, Len(s)) = suffix

\* C16: when no heading or meta selector offers a title and the page title
\* ends with " - YouTube", the title part of the filename does not end with
\* " - YouTube".
C16_SuffixStripped ==
  ( /\ fnRes # << >>
    /\ \A k \in 1..(Len(SELECTORS.titles) - 1) : Offered(page.els[k]) = << >>
    /\ EndsWith(page.docTitle, SuffixYouTube) )
  => ~EndsWith(fnRes[1].title, SuffixYouTube)

\* A page with no heading and no meta element, titled "Doc - YouTube".
C16_Witness ==
  /\ fnRes # << >>
  /\ \A k \in 1..4 : page.els[k] = NoEl
  /\ page.docTitle = DocName \o SuffixYouTube

\* What the i-th capture exported is its own: the download request carries
\* the blob and the object URL made in that call and the filename it built,
\* and its URL is revoked by its own timer, once.
OwnExport(i) ==
  LET c == cap[i]
  IN  /\ \A k \in 1..Len(c.dls) :
            /\ c.dls[k].url = i
            /\ c.dls[k].blob = << i, c.blob >>
            /\ c.dls[k].name = (IF page = PageDemo THEN DemoName ELSE ClipName)
      /\ c.revokes <= 1
      /\ c.url = "revoked" <=> c.rvTimer = "fired"
      /\ c.pc = "failed" => c.notes = << FailedMsg(c.err) >>
      /\ c.pc = "done" => Len(c.notes) = 1 /\ IsSaved(c.notes[1])

\* C17: a second hotkey press during a capture starts a second pipeline;
\* however the two interleave, each exports the blob, filename and object
\* URL of its own call, each revoke timer revokes its own URL only, and a
\* step of one pipeline, a failure included, leaves the other as it was.
C17_Independent ==
  /\ [](\A i \in Caps : OwnExport(i))
  /\ [][\A i \in Caps : cap[i]' # cap[i] =>
                           \A j \in Caps \ { i } : cap[j]' = cap[j]]_vars

\* C17 witness: the first capture failed on a download timeout and its URL
\* is still live; the second was saved and its URL has been revoked.
C17_Witness ==
  /\ Len(cap) >= 2
  /\ cap[1].pc = "failed" /\ cap[1].err = "DlTimeout" /\ cap[1].url = "live"
  /\ cap[2].pc = "done" /\ cap[2].url = "revoked"

\* C18: the timestamp in the exported filename is the playback position of
\* the frame that was drawn, also when the video keeps playing while the
\* encoder works.
C18_NameOfDrawnFrame ==
  \A i \in Caps :
    LET c == cap[i]
    IN  \A k \in 1..Len(c.dls) :
          c.dls[k].name = filenameOf([ page EXCEPT !.currentTime = c.drawnAt ])

\* C18 witness: a capture of a playing video was saved after the video had
\* moved on from the frame drawn.
C18_Witness ==
  /\ page.playing
  /\ cap[1].pc = "done"
  /\ cap[1].drawn /\ cap[1].drawnAt < page.currentTime

\* C19: after any sequence of notify calls there is at most one toast node
\* under the player, and the message shown last stays visible for its full
\* 1.6 s: while its own hide timer is pending, the toast has the 'show'
\* class.
C19_ToastStaysShown ==
  /\ toast.nodes <= 1
  /\ (\E k \in 1..Len(toast.timers) : toast.timers[k] = toast.calls) => toast.show

\* C19 witness: a second notify while the hide timer of the first is pending.
C19_Witness ==
  /\ toast.calls = 2
  /\ toast.timers = << 1, 2 >>
  /\ toast.nodes = 1 /\ toast.show

====
